---- MODULE Spec2Model ----
(***************************************************************************)
(* Model of scrapy/contrib/pipeline/images.py: the ImagesPipeline hooks    *)
(* (media_to_download, media_downloaded, media_failed) over the two image  *)
(* stores (FSImagesStore, S3ImagesStore), the pipeline constructor and the *)
(* stores under direct calls.                                              *)
(*                                                                         *)
(* Python values are tagged records (field t names the Python type), so    *)
(* that None, {}, 0 and a missing dict key stay distinct.  Digests (sha1,  *)
(* md5) and the JPEG encoder are uninterpreted injective constructors.     *)
(***************************************************************************)
EXTENDS Integers, Sequences, FiniteSets, TLC

VARIABLES
    store,      \* self.store: "FS" (FSImagesStore), "S3" (S3ImagesStore), "Stub" (any object with stat_image), "none" (no pipeline constructed)
    EXPIRES,    \* ImagesPipeline.EXPIRES, days
    now,        \* time.time(), seconds since the epoch
    ticks,      \* number of clock advances so far
    cand,       \* per request URL: the position of its fetch candidate and what its hook produced
    last,       \* the hook call the latest step made, with its inputs (NoCall after any other step)
    fs,         \* the filesystem under basedir: key -> file
    puts,       \* S3 PUT requests handed to the engine and not yet answered
    fetches,    \* number of media_downloaded calls so far (capped: MaxFetches, or MaxUploads under S3ImagesStore)
    recorded,   \* history: per URL, the result of the last media_downloaded whose files still stand
    created_directories, \* FSImagesStore.created_directories: a defaultdict(set), key -> directory names
    dirs,       \* the directories that exist under (and including) basedir
    os_calls,   \* history: how often _mkdir ran os.path.exists / os.makedirs, per <<domain argument, dirname, call>>
    sessions,   \* the info objects of the sessions (domains) that are open
    nsessions,  \* number of sessions opened so far
    heads       \* S3 HEAD requests handed to the engine and not yet answered

storevars == <<created_directories, dirs, os_calls>>

sessvars == <<sessions, nsessions>>

vars == <<store, EXPIRES, now, ticks, cand, last, fs, puts, fetches, recorded,
          created_directories, dirs, os_calls, sessions, nsessions, heads>>

----------------------------------------------------------------------------
(* Bounds of the model *)

MaxTicks == 1
MaxFetches == 2
MaxUploads == 1
MaxSessions == 2

(* Request URLs in play; the de-dup engine has at most one candidate per URL *)
URLS == {"http://a/1.png", "http://b/2.png"}

----------------------------------------------------------------------------
(* Python values *)

None_ == [t |-> "None"]
Absent == [t |-> "absent"]
Num(n) == [t |-> "num", n |-> n]
Str(s) == [t |-> "str", s |-> s]
Dict(lm, ck) == [t |-> "dict", last_modified |-> lm, checksum |-> ck]
EmptyDict == Dict(Absent, Absent)
Failure(e) == [t |-> "Failure", exc |-> e]
Pending == [t |-> "Deferred"]

IsFailure(v) == v.t = "Failure"

(* Python truth value testing, as used by `not x` *)
Falsy(v) ==
    \/ v.t = "None"
    \/ v.t = "num" /\ v.n = 0
    \/ v.t = "str" /\ v.s = ""
    \/ v.t = "dict" /\ v.last_modified = Absent /\ v.checksum = Absent

(* dict.get(name, None) *)
dict_get(d, name) == IF d[name] = Absent THEN None_ ELSE d[name]

----------------------------------------------------------------------------
(* Key deriver *)

sha1_hexdigest(url) == <<"sha1", url>>

image_key(url) == <<"full", sha1_hexdigest(url), "jpg">>

thumb_key(url, thumb_id) == <<"thumbs", thumb_id, sha1_hexdigest(url), "jpg">>

----------------------------------------------------------------------------
(* Settings *)

MIN_WIDTH == 2
MIN_HEIGHT == 2

(* IMAGES_THUMBS: pairs of thumb_id and size *)
THUMBS == << <<"small", <<1, 1>> >>, <<"big", <<3, 2>> >> >>

ThumbIds == {THUMBS[i][1] : i \in 1..Len(THUMBS)}

Keys == {image_key(u) : u \in URLS} \cup {thumb_key(u, id) : u \in URLS, id \in ThumbIds}

----------------------------------------------------------------------------
(* Images, encoded bytes, checksums *)

Img(w, h, mode, px) == [size |-> <<w, h>>, mode |-> mode, px |-> px]

NoImg == Img(0, 0, "", "")

Bytes(fmt, img) == [fmt |-> fmt, img |-> img]

EmptyBody == Bytes("empty", NoImg)
JunkBody == Bytes("junk", NoImg)

(* image.save(fp, 'JPEG') and image.save('x.jpg'): the JPEG encoding of the pixels *)
JPEG(img) == Bytes("JPEG", img)

md5sum(bytes) == [t |-> "md5", of |-> bytes]

(* Image.open(StringIO(body)): IOError unless the bytes are an image *)
Image_open(body) ==
    IF body.fmt \in {"PNG", "JPEG"} THEN [t |-> "image", img |-> body.img]
    ELSE Failure("IOError")

Max2(a, b) == IF a > b THEN a ELSE b

(* Image.thumbnail(size): shrink to fit, keeping the aspect ratio *)
thumbnail_size(sz, size) ==
    LET x0 == sz[1]
        y0 == sz[2]
        y1 == IF x0 > size[1] THEN Max2((y0 * size[1]) \div x0, 1) ELSE y0
        x1 == IF x0 > size[1] THEN size[1] ELSE x0
        x2 == IF y1 > size[2] THEN Max2((x1 * size[2]) \div y1, 1) ELSE x1
        y2 == IF y1 > size[2] THEN size[2] ELSE y1
    IN <<x2, y2>>

(* convert_image without the encoder: the image that is saved *)
convert_image(image, size) ==
    LET rgb == IF image.mode # "RGB" THEN [image EXCEPT !.mode = "RGB"] ELSE image
    IN IF size # <<>> THEN [rgb EXCEPT !.size = thumbnail_size(rgb.size, size)] ELSE rgb

----------------------------------------------------------------------------
(* The clock *)

(* time.time() when the pipeline starts (seconds since the epoch) *)
StartTime == 1257000000

Day == 60 * 60 * 24

----------------------------------------------------------------------------
(* ImagesPipeline.media_to_download *)

SkipResult(url, key, checksum) == [t |-> "result", url |-> url, path |-> key, checksum |-> checksum]

(* age_days = age_seconds / 60 / 60 / 24 (float division); age_days > expires *)
age_days_gt(age_seconds, expires) == age_seconds > expires * 60 * 60 * 24

(* Mutant of _onsuccess: the test of last_modified is left out, a missing *)
(* timestamp counts as fresh                                              *)
_onsuccess_no_lm_test(result, url, key, time, expires) ==
    IF Falsy(result) THEN None_
    ELSE IF result.t # "dict" THEN Failure("AttributeError")
    ELSE LET last_modified == dict_get(result, "last_modified") IN
         IF last_modified.t = "num" /\ age_days_gt(time - last_modified.n, expires) THEN None_
         ELSE SkipResult(url, key, dict_get(result, "checksum"))

(* _onsuccess(result) with its closure variables request.url, key and the *)
(* reads of time.time() and self.EXPIRES; a raise is a Failure            *)
_onsuccess(result, url, key, time, expires) ==
    IF Falsy(result) THEN None_
    ELSE IF result.t # "dict" THEN Failure("AttributeError")
    ELSE LET last_modified == dict_get(result, "last_modified") IN
         IF Falsy(last_modified) THEN None_
         ELSE IF last_modified.t # "num" THEN Failure("TypeError")
         ELSE IF age_days_gt(time - last_modified.n, expires) THEN None_
         ELSE SkipResult(url, key, dict_get(result, "checksum"))

(* scrapy.log.err as an errback: logs the failure and returns None *)
log_err(failure) == None_

(* defer.maybeDeferred: a synchronous raise becomes a failed deferred *)
Raise(e) == [t |-> "raise", exc |-> e]

maybeDeferred(call) == IF call.t = "raise" THEN Failure(call.exc) ELSE call

(* Mutant of media_to_download_chain: the trailing addErrback is left out *)
media_to_download_chain_no_errback(v, url, key, time, expires) ==
    IF IsFailure(v) THEN None_ ELSE _onsuccess(v, url, key, time, expires)

(* dfd.addCallbacks(_onsuccess, lambda _: None); dfd.addErrback(log.err, ...) *)
(* applied to the value or failure v the stat deferred fires with             *)
media_to_download_chain(v, url, key, time, expires) ==
    LET first == IF IsFailure(v) THEN None_ ELSE _onsuccess(v, url, key, time, expires)
    IN IF IsFailure(first) THEN log_err(first) ELSE first

(* Mutant of next_pc: the fetch is asked for even when the hook gave a result *)
next_pc_always_fetch(outcome) ==
    IF outcome.t = "Failure" THEN "failed" ELSE "fetching"

(* What the media engine does with the hook's outcome: a result suppresses *)
(* the fetch, None asks for it, a failure fails the candidate              *)
next_pc(outcome) ==
    IF outcome.t = "result" THEN "skipped"
    ELSE IF outcome.t = "None" THEN "fetching"
    ELSE "failed"

----------------------------------------------------------------------------
(* FSImagesStore *)

NoFile == [t |-> "nofile"]
File(mtime, content) == [t |-> "file", mtime |-> mtime, content |-> content]

IOFaults == {"none", "getmtime", "open"}

(* Mutant of FS_stat_image: the time of the stat is reported as last_modified *)
FS_stat_image_touch(key, fault) ==
    IF fs[key] = NoFile \/ fault = "getmtime" THEN EmptyDict
    ELSE IF fault = "open" THEN Raise("IOError")
    ELSE Dict(Num(now), md5sum(fs[key].content))

(* stat_image(key, info) with the I/O fault the operating system answers with *)
FS_stat_image(key, fault) ==
    IF fs[key] = NoFile \/ fault = "getmtime" THEN EmptyDict
    ELSE IF fault = "open" THEN Raise("IOError")
    ELSE Dict(Num(fs[key].mtime), md5sum(fs[key].content))

(* Mutant of FS_saved_bytes: the file is written in another format than buf *)
FS_saved_bytes_png(image, buf) == Bytes("PNG", image)

(* persist_image: image.save(absolute_path) writes the JPEG encoding of image *)
FS_saved_bytes(image, buf) == JPEG(image)

(* The info object MediaPipeline keeps per open domain and hands to every    *)
(* hook; the n-th one created.  Two info objects are equal only when they    *)
(* are the same object, and no info object equals a domain name.             *)
Info(domain, n) == [t |-> "info", domain |-> domain, n |-> n]

DOMAINS == {"a.com", "b.org"}

(* os.path.dirname of the path of a key: 'full/<guid>.jpg' -> 'full',         *)
(* 'thumbs/<id>/<guid>.jpg' -> 'thumbs/<id>'; <<>> is basedir itself          *)
os_path_dirname(key) == SubSeq(key, 1, Len(key) - 2)

(* os.makedirs: creates the directory and every missing ancestor *)
os_makedirs(ds, dirname) == ds \cup {SubSeq(dirname, 1, i) : i \in 0..Len(dirname)}

(* defaultdict(set) *)
EmptyCache == [k \in {} |-> {}]

(* defaultdict.__getitem__: a missing key is entered with an empty set *)
defaultdict_get(d, k) ==
    IF k \in DOMAIN d THEN d
    ELSE [x \in DOMAIN d \cup {k} |-> IF x = k THEN {} ELSE d[x]]

(* dict.pop(k, None) *)
dict_pop(d, k) == [x \in DOMAIN d \ {k} |-> d[x]]

NoCounts == [k \in {} |-> 0]

count_add(counts, e) ==
    IF e \in DOMAIN counts THEN [counts EXCEPT ![e] = @ + 1]
    ELSE [x \in DOMAIN counts \cup {e} |-> IF x = e THEN 1 ELSE counts[x]]

MkdirResult(cd, ds, oc, os) == [cd |-> cd, dirs |-> ds, calls |-> oc, os |-> os]

(* Mutant of _mkdir: the set of seen directories is not consulted *)
_mkdir_no_cache(cd, ds, oc, dirname, domain) ==
    LET cd1 == IF Falsy(domain) THEN cd ELSE defaultdict_get(cd, domain)
        cd2 == IF Falsy(domain) THEN cd1 ELSE [cd1 EXCEPT ![domain] = @ \cup {dirname}]
        oc1 == count_add(oc, <<domain, dirname, "exists">>)
    IN IF dirname \in ds THEN MkdirResult(cd2, ds, oc1, <<"exists">>)
       ELSE MkdirResult(cd2, os_makedirs(ds, dirname),
                        count_add(oc1, <<domain, dirname, "makedirs">>),
                        <<"exists", "makedirs">>)

(* _mkdir(dirname, domain) over the cache cd, the directories ds on disk and *)
(* the history oc of os calls; os lists the os calls this call made          *)
_mkdir(cd, ds, oc, dirname, domain) ==
    LET cd1 == IF Falsy(domain) THEN cd ELSE defaultdict_get(cd, domain)
        seen == IF Falsy(domain) THEN {} ELSE cd1[domain]
        cd2 == IF Falsy(domain) THEN cd1 ELSE [cd1 EXCEPT ![domain] = @ \cup {dirname}]
        oc1 == count_add(oc, <<domain, dirname, "exists">>)
    IN IF dirname \in seen THEN MkdirResult(cd1, ds, oc, <<>>)
       ELSE IF dirname \in ds THEN MkdirResult(cd2, ds, oc1, <<"exists">>)
       ELSE MkdirResult(cd2, os_makedirs(ds, dirname),
                        count_add(oc1, <<domain, dirname, "makedirs">>),
                        <<"exists", "makedirs">>)

(* The _mkdir calls of the persist_image calls of one media_downloaded *)
RECURSIVE mkdir_calls(_, _, _, _, _)
mkdir_calls(cd, ds, oc, calls, info) ==
    IF calls = <<>> THEN MkdirResult(cd, ds, oc, <<>>)
    ELSE LET m == _mkdir(cd, ds, oc, os_path_dirname(Head(calls).key), info)
         IN mkdir_calls(m.cd, m.dirs, m.calls, Tail(calls), info)

(* FSImagesStore.domain_closed(domain) *)
domain_closed(cd, domain) == dict_pop(cd, domain)

----------------------------------------------------------------------------
(* S3ImagesStore *)

Quoted(s) == [t |-> "quoted", s |-> s]
(* A Last-Modified header that parses: the calendar time as written (in   *)
(* seconds) and the offset of its time zone; Date is one in GMT            *)
DateTz(wall, tz) == [t |-> "date", wall |-> wall, tz |-> tz]

Date(epoch) == DateTz(epoch, 0)

(* rfc822.mktime_tz(rfc822.parsedate_tz(header)): UTC seconds since the epoch *)
mktime_tz(header) == header.wall - header.tz

strip_quotes(h) == IF h.t = "quoted" THEN Str(h.s) ELSE h

Response(status, etag, last_modified) ==
    [status |-> status, Etag |-> etag, LastModified |-> last_modified]

(* Answers of the S3 service to a HEAD request *)
HeadResponses ==
    {Response(st, e, lm) :
        st \in {200, 204, 404},
        e \in {Absent, Quoted("e1"), Quoted("e2")},
        lm \in {Absent, Str("junk"), Date(0), Date(StartTime - Day - 1),
                Date(StartTime - Day), Date(StartTime), DateTz(StartTime + 3600, 3600)}}

(* _build_request: the composed address *)
S3_url(key) == <<"http://bucket.s3.amazonaws.com/", "prefix/", key>>

(* stat_image: the HEAD request handed to the engine *)
HeadRequest(key) == [method |-> "HEAD", url |-> S3_url(key), key |-> key]

(* Mutant of S3_onsuccess: the status of the response is not looked at *)
S3_onsuccess_any_status(response) ==
    IF response.Etag = Absent THEN Failure("KeyError")
    ELSE IF response.LastModified = Absent THEN Failure("KeyError")
    ELSE IF response.LastModified.t # "date" THEN Failure("TypeError")
    ELSE Dict(Num(mktime_tz(response.LastModified)), strip_quotes(response.Etag))

(* stat_image._onsuccess(response); a raise is a Failure *)
S3_onsuccess(response) ==
    IF response.status = 200 THEN
        IF response.Etag = Absent THEN Failure("KeyError")
        ELSE IF response.LastModified = Absent THEN Failure("KeyError")
        ELSE IF response.LastModified.t # "date" THEN Failure("TypeError")
        ELSE Dict(Num(mktime_tz(response.LastModified)), strip_quotes(response.Etag))
    ELSE None_

----------------------------------------------------------------------------
(* ImagesPipeline.__init__: the store is chosen by the scheme of IMAGES_STORE *)

(* A store URI as written: the scheme before '://' ("" when there is none) *)
(* and the components after it, split at the first '/'                     *)
Uri(scheme, parts) == [scheme |-> scheme, parts |-> parts]

STORE_URIS ==
    {Uri("", <<>>),
     Uri("", <<"/var/images">>),
     Uri("file", <<"", "var/images">>),
     Uri("s3", <<"bucket", "prefix/">>),
     Uri("S3", <<"bucket", "prefix/">>),
     Uri("s3", <<"bucket">>),
     Uri("ftp", <<"host", "images">>),
     Uri("c", <<"\\images">>)}

(* str.lower() on the schemes in play *)
str_lower(s) == IF s = "S3" THEN "s3" ELSE s

(* urlparse.urlparse(uri).scheme: the scheme in lower case *)
urlparse_scheme(uri) == str_lower(uri.scheme)

STORE_SCHEMES == [scheme \in {"", "file", "s3"} |-> IF scheme = "s3" THEN "S3" ELSE "FS"]

Store(cls) == [t |-> "store", cls |-> cls]

(* S3ImagesStore.__init__: the assert on the prefix as written, then the   *)
(* unpacking of bucket and prefix                                           *)
S3ImagesStore_init(uri) ==
    IF uri.scheme # "s3" THEN Raise("AssertionError")
    ELSE IF Len(uri.parts) < 2 THEN Raise("ValueError")
    ELSE Store("S3")

(* Mutant of _get_store: an unknown scheme falls back to the filesystem store *)
_get_store_default_fs(uri) ==
    LET scheme == urlparse_scheme(uri)
    IN IF scheme \notin DOMAIN STORE_SCHEMES THEN Store("FS")
       ELSE IF STORE_SCHEMES[scheme] = "FS" THEN Store("FS")
       ELSE S3ImagesStore_init(uri)

(* _get_store(uri): the constructed store, or the exception raised *)
_get_store(uri) ==
    LET scheme == urlparse_scheme(uri)
    IN IF scheme \notin DOMAIN STORE_SCHEMES THEN Raise("KeyError")
       ELSE IF STORE_SCHEMES[scheme] = "FS" THEN Store("FS")
       ELSE S3ImagesStore_init(uri)

(* ImagesPipeline.__init__ up to self.store *)
ImagesPipeline_init(store_uri) ==
    IF store_uri = Uri("", <<>>) THEN Raise("NotConfigured")
    ELSE _get_store(store_uri)

----------------------------------------------------------------------------
(* ImagesPipeline.media_downloaded *)

Http(status, body) == [status |-> status, body |-> body]

(* A response delivered after a redirect: response.url is not request.url *)
Redirected(response, url) == [status |-> response.status, body |-> response.body, url |-> url]

(* response.url: that of the request unless the response was redirected *)
response_url(response, request_url) ==
    IF "url" \in DOMAIN response THEN response.url ELSE request_url

(* An image that passes the size test: as wide as MIN_WIDTH, higher than *)
(* MIN_HEIGHT, in palette mode                                            *)
GoodBody == Bytes("PNG", Img(2, 3, "P", "c"))

(* Bodies the origin answers with: nothing, bytes that are no image, images *)
Bodies ==
    {EmptyBody, JunkBody,
     Bytes("PNG", Img(1, 3, "RGB", "a")),
     Bytes("PNG", Img(3, 1, "RGB", "b")),
     GoodBody}

(* Answers of the origin: any body with status 200, an image with another *)
(* 2xx status, an image or nothing with an error status                   *)
HttpResponses ==
    {Http(200, b) : b \in Bodies}
    \cup {Http(206, GoodBody), Http(404, GoodBody), Http(404, EmptyBody)}
    \cup {Redirected(Http(200, GoodBody), "http://cdn/3.png")}

(* Mutant of response_check: the empty-body test is left out *)
response_check_no_body(response) ==
    IF response.status # 200 THEN "http-error" ELSE "ok"

(* The two checks at the head of media_downloaded: "ok" or the reason it raises *)
response_check(response) ==
    IF response.status # 200 THEN "http-error"
    ELSE IF response.body = EmptyBody THEN "empty-content"
    ELSE "ok"

(* Mutant of too_small: rejects only when both dimensions are too small *)
too_small_both(size) == size[1] < MIN_WIDTH /\ size[2] < MIN_HEIGHT

(* get_images: the minimum-size test on the opened image *)
too_small(size) == size[1] < MIN_WIDTH \/ size[2] < MIN_HEIGHT

Variant(key, image) == [key |-> key, image |-> image, buf |-> JPEG(image)]

(* Mutant of get_images: the thumbnails are yielded before the primary variant *)
get_images_thumbs_first(url, orig_image) ==
    LET image == convert_image(orig_image, <<>>)
    IN [i \in 1..Len(THUMBS) |->
            Variant(thumb_key(url, THUMBS[i][1]), convert_image(image, THUMBS[i][2]))]
       \o <<Variant(image_key(url), image)>>

(* get_images: everything the generator yields when nothing fails *)
get_images(url, orig_image) ==
    LET image == convert_image(orig_image, <<>>)
    IN <<Variant(image_key(url), image)>> \o
       [i \in 1..Len(THUMBS) |->
            Variant(thumb_key(url, THUMBS[i][1]), convert_image(image, THUMBS[i][2]))]

NVariants == 1 + Len(THUMBS)

(* What can go wrong while the variants are produced and persisted: the JPEG  *)
(* encoder fails on variant k, or (filesystem) image.save cannot open the     *)
(* file of variant k for writing                                              *)
NoFault == [kind |-> "none", k |-> 0]

Faults(st) ==
    {NoFault}
    \cup {[kind |-> "encode", k |-> k] : k \in 1..NVariants}
    \cup (IF st = "FS" THEN {[kind |-> "persist", k |-> k] : k \in 1..NVariants} ELSE {})

(* Mutant of first_buf: first_buf is overwritten by every variant *)
last_buf(variants) == variants[Len(variants)].buf

(* image_downloaded: the buffer whose md5 is returned *)
first_buf(variants) == variants[1].buf

Run(outcome, calls, done, opened) ==
    [outcome |-> outcome, calls |-> calls, done |-> done, opened |-> opened]

(* Mutant of image_downloaded: every variant is produced before the first *)
(* persist_image call                                                     *)
image_downloaded_eager(url, response, fault) ==
    LET opened == Image_open(response.body) IN
    IF IsFailure(opened) THEN Run(opened, <<>>, 0, TRUE)
    ELSE IF too_small(opened.img.size) THEN Run(Failure("ImageException"), <<>>, 0, TRUE)
    ELSE LET variants == get_images(url, opened.img) IN
         IF fault.kind = "none"
         THEN Run(SkipResult(url, image_key(url), md5sum(first_buf(variants))),
                  variants, NVariants, TRUE)
         ELSE IF fault.kind = "encode"
         THEN Run(Failure("ImageException"), <<>>, 0, TRUE)
         ELSE Run(Failure("IOError"), SubSeq(variants, 1, fault.k), fault.k - 1, TRUE)

(* image_downloaded driving get_images: the outcome, the persist_image calls *)
(* made (in order), how many of them completed, whether Image.open ran       *)
image_downloaded(url, response, fault) ==
    LET opened == Image_open(response.body) IN
    IF IsFailure(opened) THEN Run(opened, <<>>, 0, TRUE)
    ELSE IF too_small(opened.img.size) THEN Run(Failure("ImageException"), <<>>, 0, TRUE)
    ELSE LET variants == get_images(url, opened.img) IN
         IF fault.kind = "none"
         THEN Run(SkipResult(url, image_key(url), md5sum(first_buf(variants))),
                  variants, NVariants, TRUE)
         ELSE IF fault.kind = "encode"
         THEN Run(Failure("ImageException"), SubSeq(variants, 1, fault.k - 1), fault.k - 1, TRUE)
         ELSE Run(Failure("IOError"), SubSeq(variants, 1, fault.k), fault.k - 1, TRUE)

(* Mutant of media_downloaded: the key is derived from the URL of the response *)
media_downloaded_response_url(url, response, fault) ==
    IF response_check(response) # "ok"
    THEN Run(Failure("ImageException"), <<>>, 0, FALSE)
    ELSE image_downloaded(response_url(response, url), response, fault)

(* media_downloaded(response, request, info) with url = request.url *)
media_downloaded(url, response, fault) ==
    IF response_check(response) # "ok"
    THEN Run(Failure("ImageException"), <<>>, 0, FALSE)
    ELSE image_downloaded(url, response, fault)

(* Mutant of media_failed: the failure is swallowed *)
media_failed_swallowed(failure) == None_

(* media_failed(failure, request, info): raises ImageException *)
media_failed(failure) == Failure("ImageException")

(* What the engine reports when the fetch itself failed *)
FetchFailures == {Failure("TimeoutError"), Failure("ConnectionRefusedError")}

----------------------------------------------------------------------------
(* State of one fetch candidate, and the record of one hook call *)

Idle == [pc |-> "idle", key |-> <<>>, result |-> None_]

Terminal == {"skipped", "processed", "failed"}

Call(hook, url, stat, response, fault, run) ==
    [hook |-> hook, url |-> url, stat |-> stat, response |-> response, fault |-> fault,
     outcome |-> run.outcome, calls |-> run.calls, done |-> run.done, opened |-> run.opened]

NoResponse == Http(0, EmptyBody)

NoCall == Call("none", "", None_, NoResponse, NoFault, Run(None_, <<>>, 0, FALSE))

(* A call of media_to_download: what stat_image answered and what the hook resolved to *)
CheckCall(url, stat, outcome) ==
    Call("media_to_download", url, stat, NoResponse, NoFault, Run(outcome, <<>>, 0, FALSE))

----------------------------------------------------------------------------
(* A store that is neither of the two: any object with a stat_image method.  *)
(* What its stat_image may return, raise or fire with.                        *)

StubResults ==
    {None_, Str("garbage")}
    \cup {Dict(lm, ck) :
            lm \in {Absent, None_, Num(0), Num(StartTime - Day), Num(StartTime), Str("yesterday")},
            ck \in {Absent, Str("c1"), Str("c2")}}

StubCalls == StubResults \cup {Raise("Exception"), Failure("Exception"), Pending}

(* self.store.stat_image(key, info): what the call hands back *)
stat_image_call(key) ==
    IF store = "FS" THEN {FS_stat_image(key, fault) : fault \in IOFaults}
    ELSE IF store = "S3" THEN {Pending}
    ELSE StubCalls

(* What a pending stat deferred fires with *)
stat_image_fired(key) ==
    IF store = "S3"
    THEN {S3_onsuccess(r) : r \in HeadResponses} \cup {Failure("TransportError")}
    ELSE StubResults \cup {Failure("Exception")}

(* Mutant of closure_key: key is kept on the pipeline object, so a call made *)
(* while this one waits overwrites it                                       *)
closure_key_shared(u) ==
    LET others == {v \in URLS : v # u /\ cand[v].pc = "checking"}
    IN IF others = {} THEN cand[u].key ELSE cand[CHOOSE v \in others : TRUE].key

(* The key variable _onsuccess closes over: the one bound by its own call *)
closure_key(u) == cand[u].key

----------------------------------------------------------------------------
(* Actions *)

(* media_to_download(request, info) up to its return; when stat_image        *)
(* answered synchronously the callbacks have run by then                     *)
MediaToDownload(u) ==
    /\ cand[u].pc = "idle"
    /\ \E call \in stat_image_call(image_key(u)) :
         LET key == image_key(u)
             dfd == maybeDeferred(call)
             outcome == media_to_download_chain(dfd, u, key, now, EXPIRES)
         IN IF dfd = Pending
            THEN /\ cand' = [cand EXCEPT ![u] = [pc |-> "checking", key |-> key, result |-> None_]]
                 /\ last' = NoCall
            ELSE /\ cand' = [cand EXCEPT ![u] =
                        [pc |-> next_pc(outcome), key |-> key, result |-> outcome]]
                 /\ last' = CheckCall(u, call, outcome)
    /\ heads' = IF store = "S3" THEN heads \cup {HeadRequest(image_key(u))} ELSE heads
    /\ UNCHANGED <<store, EXPIRES, now, ticks, fs, puts, fetches, recorded, storevars, sessvars>>

(* The stat deferred fires: the callbacks of media_to_download run *)
StatFired(u) ==
    /\ cand[u].pc = "checking"
    /\ \E v \in stat_image_fired(cand[u].key) :
         LET outcome == media_to_download_chain(v, u, closure_key(u), now, EXPIRES)
         IN /\ cand' = [cand EXCEPT ![u] =
                    [@ EXCEPT !.pc = next_pc(outcome), !.result = outcome]]
            /\ last' = CheckCall(u, v, outcome)
    /\ heads' = heads \ {HeadRequest(cand[u].key)}
    /\ UNCHANGED <<store, EXPIRES, now, ticks, fs, puts, fetches, recorded, storevars, sessvars>>

(* The files persist_image wrote during one media_downloaded on the filesystem *)
fs_after(run) ==
    [k \in Keys |->
        IF \E i \in 1..run.done : run.calls[i].key = k
        THEN LET i == CHOOSE i \in 1..run.done : run.calls[i].key = k
             IN File(now, FS_saved_bytes(run.calls[i].image, run.calls[i].buf))
        ELSE fs[k]]

(* S3ImagesStore.persist_image: one PUT per call, handed to the engine and  *)
(* its deferred dropped by image_downloaded; returned tells whether the     *)
(* media_downloaded that made the call went on to return a result           *)
Put(variant, returned) ==
    [key |-> variant.key, url |-> S3_url(variant.key), body |-> variant.buf,
     returned |-> returned]

puts_after(run) ==
    puts \cup {Put(run.calls[i], ~IsFailure(run.outcome)) : i \in 1..Len(run.calls)}

(* media_downloaded(response, request, info) *)
MediaDownloaded(u) ==
    /\ cand[u].pc = "fetching"
    /\ fetches < (IF store = "S3" THEN MaxUploads ELSE MaxFetches)
    /\ \E response \in HttpResponses, fault \in Faults(store), info \in sessions :
         LET run == media_downloaded(u, response, fault)
             m == mkdir_calls(created_directories, dirs, os_calls, run.calls, info)
         IN \* an encoder or write fault needs a variant to strike
            /\ fault # NoFault => media_downloaded(u, response, NoFault).calls # <<>>
            /\ cand' = [cand EXCEPT ![u] =
                    [@ EXCEPT !.pc = IF IsFailure(run.outcome) THEN "failed" ELSE "processed",
                              !.result = run.outcome]]
            /\ last' = Call("media_downloaded", u, None_, response, fault, run)
            /\ fs' = IF store = "FS" THEN fs_after(run) ELSE fs
            /\ puts' = IF store = "S3" THEN puts_after(run) ELSE puts
            /\ recorded' = IF store # "FS" THEN recorded
                           ELSE IF ~IsFailure(run.outcome)
                           THEN [recorded EXCEPT ![u] = run.outcome]
                           ELSE IF fs_after(run)[image_key(u)] # fs[image_key(u)]
                           THEN [recorded EXCEPT ![u] = None_]
                           ELSE recorded
            /\ created_directories' = IF store = "FS" THEN m.cd ELSE created_directories
            /\ dirs' = IF store = "FS" THEN m.dirs ELSE dirs
            /\ os_calls' = IF store = "FS" THEN m.calls ELSE os_calls
    /\ fetches' = fetches + 1
    /\ UNCHANGED <<store, EXPIRES, now, ticks, sessvars, heads>>

(* media_failed(failure, request, info): always raises ImageException *)
MediaFailed(u) ==
    /\ cand[u].pc = "fetching"
    /\ \E failure \in FetchFailures :
         LET outcome == media_failed(failure)
         IN /\ cand' = [cand EXCEPT ![u] =
                    [@ EXCEPT !.pc = IF IsFailure(outcome) THEN "failed" ELSE "processed",
                              !.result = outcome]]
            /\ last' = Call("media_failed", u, failure, NoResponse, NoFault,
                            Run(outcome, <<>>, 0, FALSE))
    /\ UNCHANGED <<store, EXPIRES, now, ticks, fs, puts, fetches, recorded, storevars, sessvars, heads>>

(* The engine answers a PUT: with a response (200, or an error status), or *)
(* with a transport failure; nothing listens                               *)
PutAnswers == {Http(200, EmptyBody), Http(500, EmptyBody), Failure("TransportError")}

PutResponse(p, answer) ==
    /\ p \in puts
    /\ puts' = puts \ {p}
    /\ last' = [NoCall EXCEPT !.hook = "persist_image.response", !.stat = answer,
                             !.calls = <<p>>]
    /\ UNCHANGED <<store, EXPIRES, now, ticks, cand, fs, fetches, recorded, storevars, sessvars, heads>>

(* Time passes.  Under S3ImagesStore the clock stands still: the age of an *)
(* object is decided by the Last-Modified header the service answers with *)
Tick(d) ==
    /\ store # "S3"
    /\ ticks < MaxTicks
    /\ now' = now + d
    /\ ticks' = ticks + 1
    /\ last' = NoCall
    /\ UNCHANGED <<store, EXPIRES, cand, fs, puts, fetches, recorded, storevars, sessvars, heads>>

(* The engine meets the same URL again after its candidate ended *)
NewRequest(u) ==
    /\ cand[u].pc \in Terminal
    /\ cand' = [cand EXCEPT ![u] = Idle]
    /\ last' = NoCall
    /\ UNCHANGED <<store, EXPIRES, now, ticks, fs, puts, fetches, recorded, storevars, sessvars, heads>>

----------------------------------------------------------------------------
(* The stores on their own: construction, sessions, direct calls *)

(* The record of one call on the pipeline constructor or on the store *)
StoreCall(hook, args, outcome, os) == [hook |-> hook, args |-> args, outcome |-> outcome, os |-> os]

(* The variants handed to persist_image: the primary variant of an accepted *)
(* image for every URL, and the first thumbnail for one of them             *)
StoreVariants ==
    {get_images(u, Image_open(GoodBody).img)[1] : u \in URLS}
    \cup {get_images("http://a/1.png", Image_open(GoodBody).img)[2]}

IsPrefix(d, x) == Len(d) <= Len(x) /\ SubSeq(x, 1, Len(d)) = d

(* ImagesPipeline(): on success self.store is set; FSImagesStore.__init__    *)
(* makes basedir and starts with an empty cache.  On a raise there is no     *)
(* pipeline object.                                                          *)
Construct(uri) ==
    /\ store = "none"
    /\ LET outcome == ImagesPipeline_init(uri)
           m == _mkdir(EmptyCache, dirs, os_calls, <<>>, None_)
       IN /\ store' = IF outcome.t = "store" THEN outcome.cls ELSE "none"
          /\ created_directories' = EmptyCache
          /\ dirs' = IF outcome = Store("FS") THEN m.dirs ELSE dirs
          /\ os_calls' = IF outcome = Store("FS") THEN m.calls ELSE os_calls
          /\ last' = StoreCall("__init__", [uri |-> uri], outcome,
                               IF outcome = Store("FS") THEN m.os ELSE <<>>)
    /\ UNCHANGED <<EXPIRES, now, ticks, cand, fs, puts, fetches, recorded, sessvars, heads>>

(* The engine opens a domain: MediaPipeline creates its info object *)
DomainOpened(d) ==
    /\ store # "none"
    /\ nsessions < MaxSessions
    /\ \A i \in sessions : i.domain # d
    /\ sessions' = sessions \cup {Info(d, nsessions + 1)}
    /\ nsessions' = nsessions + 1
    /\ last' = NoCall
    /\ UNCHANGED <<store, EXPIRES, now, ticks, cand, fs, puts, fetches, recorded, storevars, heads>>

(* signals.domain_closed is sent with the domain name: MediaPipeline drops *)
(* its info object, FSImagesStore.domain_closed(domain) runs                *)
DomainClosed(info) ==
    /\ store # "none"
    /\ info \in sessions
    /\ sessions' = sessions \ {info}
    /\ created_directories' = IF store = "FS"
                              THEN domain_closed(created_directories, Str(info.domain))
                              ELSE created_directories
    /\ last' = StoreCall("domain_closed", [domain |-> info.domain, info |-> info], None_, <<>>)
    /\ UNCHANGED <<store, EXPIRES, now, ticks, cand, fs, puts, fetches, recorded,
                   dirs, os_calls, nsessions, heads>>

(* store.persist_image(key, image, buf, info).  Filesystem: _mkdir, then     *)
(* image.save, which raises IOError when the directory is not there.  S3: a  *)
(* PUT is handed to the engine.                                              *)
PersistImage(info, variant) ==
    /\ store \in {"FS", "S3"}
    /\ info \in sessions
    /\ LET dirname == os_path_dirname(variant.key)
           m == _mkdir(created_directories, dirs, os_calls, dirname, info)
           args == [key |-> variant.key, info |-> info, buf |-> variant.buf]
       IN IF store = "FS"
          THEN /\ created_directories' = m.cd
               /\ dirs' = m.dirs
               /\ os_calls' = m.calls
               /\ fs' = IF dirname \in m.dirs
                        THEN [fs EXCEPT ![variant.key] =
                                File(now, FS_saved_bytes(variant.image, variant.buf))]
                        ELSE fs
               /\ last' = StoreCall("persist_image", args,
                                    IF dirname \in m.dirs THEN None_ ELSE Raise("IOError"), m.os)
               /\ puts' = puts
          ELSE /\ puts' = puts \cup {Put(variant, FALSE)}
               /\ last' = StoreCall("persist_image", args, Pending, <<>>)
               /\ UNCHANGED <<storevars, fs>>
    /\ UNCHANGED <<store, EXPIRES, now, ticks, cand, fetches, recorded, sessvars, heads>>

(* store.stat_image(key, info).  Filesystem: the answer.  S3: a HEAD is *)
(* handed to the engine.                                                 *)
StatImage(key) ==
    /\ store \in {"FS", "S3"}
    /\ IF store = "FS"
       THEN /\ \E fault \in IOFaults :
                 last' = StoreCall("stat_image", [key |-> key], FS_stat_image(key, fault), <<>>)
            /\ heads' = heads
       ELSE /\ HeadRequest(key) \notin heads
            /\ heads' = heads \cup {HeadRequest(key)}
            /\ last' = StoreCall("stat_image", [key |-> key], Pending, <<>>)
    /\ UNCHANGED <<store, EXPIRES, now, ticks, cand, fs, puts, fetches, recorded, storevars, sessvars>>

(* The engine answers a HEAD with a response: stat_image._onsuccess runs *)
HeadAnswered(h, response) ==
    /\ h \in heads
    /\ heads' = heads \ {h}
    /\ last' = StoreCall("stat_image.response", [request |-> h, response |-> response],
                         S3_onsuccess(response), <<>>)
    /\ UNCHANGED <<store, EXPIRES, now, ticks, cand, fs, puts, fetches, recorded, storevars, sessvars>>

(* Somebody removes a directory under basedir, with what it holds *)
RemoveDir(d) ==
    /\ d \in dirs
    /\ d # <<>>
    /\ dirs' = {x \in dirs : ~IsPrefix(d, x)}
    /\ fs' = [k \in Keys |-> IF IsPrefix(d, os_path_dirname(k)) THEN NoFile ELSE fs[k]]
    /\ last' = NoCall
    /\ UNCHANGED <<store, EXPIRES, now, ticks, cand, puts, fetches, recorded,
                   created_directories, os_calls, sessvars, heads>>

----------------------------------------------------------------------------
(* Specifications *)

InitWith(stores, expiries) ==
    /\ store \in stores
    /\ EXPIRES \in expiries
    /\ now = StartTime
    /\ ticks = 0
    /\ cand = [u \in URLS |-> Idle]
    /\ last = NoCall
    /\ fs = [k \in Keys |-> NoFile]
    /\ puts = {}
    /\ fetches = 0
    /\ recorded = [u \in URLS |-> None_]
    /\ LET m == IF store = "FS" THEN _mkdir(EmptyCache, {}, NoCounts, <<>>, None_)
                ELSE MkdirResult(EmptyCache, {}, NoCounts, <<>>)
       IN /\ created_directories = m.cd
          /\ dirs = m.dirs
          /\ os_calls = m.calls
    /\ sessions = IF store = "none" THEN {} ELSE {Info("a.com", 1)}
    /\ nsessions = IF store = "none" THEN 0 ELSE 1
    /\ heads = {}

(* The pipeline over either store of STORE_SCHEMES *)
Init == InitWith({"FS"}, {0, 1}) \/ InitWith({"S3"}, {1})

Next ==
    \/ \E u \in URLS : MediaToDownload(u)
    \/ \E u \in URLS : StatFired(u)
    \/ \E u \in URLS : MediaDownloaded(u)
    \/ \E u \in URLS : MediaFailed(u)
    \/ \E p \in puts, answer \in PutAnswers : PutResponse(p, answer)
    \/ Tick(Day)
    \/ \E u \in URLS : NewRequest(u)

Spec == Init /\ [][Next]_vars

(* media_to_download over an arbitrary store *)
InitCheck == InitWith({"Stub"}, {-1, 0, 1, 20000})

NextCheck ==
    \/ \E u \in URLS : MediaToDownload(u)
    \/ \E u \in URLS : StatFired(u)
    \/ \E d \in {1, Day} : Tick(d)
    \/ \E u \in URLS : NewRequest(u)

SpecCheck == InitCheck /\ [][NextCheck]_vars

(* The pipeline constructor and the stores under direct calls *)
InitStore == InitWith({"none"}, {1})

NextStore ==
    \/ \E uri \in STORE_URIS : Construct(uri)
    \/ \E d \in DOMAINS : DomainOpened(d)
    \/ \E info \in sessions : DomainClosed(info)
    \/ \E info \in sessions, variant \in StoreVariants : PersistImage(info, variant)
    \/ \E u \in URLS : StatImage(image_key(u))
    \/ \E h \in heads, response \in HeadResponses : HeadAnswered(h, response)
    \/ \E d \in dirs : RemoveDir(d)

SpecStore == InitStore /\ [][NextStore]_vars

----------------------------------------------------------------------------
(* Properties.  A state in which last names a hook is the state right after *)
(* that hook returned: now is the time of the call.                          *)

Checked == last.hook = "media_to_download"
Downloaded == last.hook = "media_downloaded"

(* C1: whenever stat reports an existing image with a last-modified        *)
(* timestamp t, 0 included, media_to_download resolves to a skip result    *)
(* exactly when (now - t) / 86400 <= EXPIRES and to None exactly when      *)
(* (now - t) / 86400 > EXPIRES.                                            *)
C1_FreshnessDecision ==
    (Checked /\ last.stat.t = "dict" /\ last.stat.last_modified.t = "num") =>
        LET t == last.stat.last_modified.n IN
        /\ (last.outcome.t = "result") <=> (now - t <= EXPIRES * 86400)
        /\ (last.outcome = None_) <=> (now - t > EXPIRES * 86400)

(* C2: whenever stat reports nothing (None, {}) or a result without a      *)
(* last-modified timestamp, media_to_download resolves to None, whatever   *)
(* the time, the expiry window and the checksum.                           *)
C2_MissingMetadataDownload ==
    (Checked /\ (\/ last.stat = None_
                 \/ last.stat = EmptyDict
                 \/ last.stat.t = "dict" /\ last.stat.last_modified \in {Absent, None_})) =>
        /\ last.outcome = None_
        /\ cand[last.url].pc = "fetching"

C2_Witness ==
    /\ Checked
    /\ last.stat = Dict(Absent, Str("c1"))
    /\ EXPIRES = 20000
    /\ last.outcome = None_

(* C3: when stat_image raises, hands back or fires a failure, or answers    *)
(* with something the classification callback raises on (a result that is  *)
(* no dict, a last-modified that is no number), media_to_download resolves  *)
(* to None: never to a failure, never to a skip result.                     *)
CallbackRaises(v) ==
    \/ v.t = "str" /\ v.s # ""
    \/ v.t = "dict" /\ v.last_modified.t = "str" /\ v.last_modified.s # ""

C3_StatFailureDegrades ==
    Checked =>
        /\ ~IsFailure(last.outcome)
        /\ (last.stat.t \in {"raise", "Failure"} \/ CallbackRaises(last.stat)) =>
              /\ last.outcome = None_
              /\ cand[last.url].pc = "fetching"

C3_Witness ==
    /\ Checked
    /\ last.stat = Dict(Str("yesterday"), Str("c1"))
    /\ last.outcome = None_
    /\ cand[last.url].pc = "fetching"

(* C4: FSImagesStore.stat_image never raises: a missing file or an I/O      *)
(* error at any step gives the empty result.                                *)
C4_FSStatNeverRaises ==
    (store = "FS" /\ Checked) => last.stat.t # "raise"

(* C5: a skip result produced for the candidate with URL u is exactly       *)
(* {url: u, path: full/<sha1(u)>.jpg, checksum: the checksum its own stat   *)
(* answered with}, whatever other candidates are in flight.                 *)
C5_SkipResultContent ==
    (Checked /\ last.outcome.t = "result") =>
        /\ last.outcome.url = last.url
        /\ last.outcome.path = <<"full", <<"sha1", last.url>>, "jpg">>
        /\ last.outcome.checksum = last.stat.checksum
        /\ cand[last.url].result = last.outcome
        /\ cand[last.url].pc = "skipped"

C5_Witness ==
    /\ Checked
    /\ last.outcome.t = "result"
    /\ last.outcome.checksum = Str("e1")
    /\ \E v \in URLS \ {last.url} : cand[v].pc = "checking"

C7_ValidationRejectsNon2xx ==
    Downloaded =>
        (~last.opened <=>
            (last.response.status \notin 200..299 \/ last.response.body = EmptyBody))

(* C7, amended: media_downloaded fails at validation exactly when the status *)
(* is not 200 or the body is empty; every response with status 200 and a    *)
(* body goes on to image processing.  On a validation failure the hook      *)
(* raises, no image is decoded, no persist call is made, no retry is issued. *)
C7_ValidationRejectsNon200 ==
    Downloaded =>
        /\ ~last.opened <=> (last.response.status # 200 \/ last.response.body = EmptyBody)
        /\ ~last.opened =>
              /\ last.outcome = Failure("ImageException")
              /\ last.calls = <<>>
              /\ cand[last.url].pc = "failed"

C7_Witness ==
    /\ Downloaded
    /\ last.response = Http(206, GoodBody)
    /\ ~last.opened
    /\ last.outcome = Failure("ImageException")

(* C8: a downloaded image narrower than MIN_WIDTH or lower than MIN_HEIGHT   *)
(* makes media_downloaded fail with no persist call made; an image at least  *)
(* MIN_WIDTH wide and MIN_HEIGHT high is not rejected (it is persisted       *)
(* unless the encoder or the store fails), and thumbnails are persisted      *)
(* whatever their size.                                                      *)
Decoded == Downloaded /\ last.opened /\ last.response.body.fmt \in {"PNG", "JPEG"}

C9_SuccessfulResult ==
    (Downloaded /\ last.outcome.t = "result") =>
        /\ Len(last.calls) = 1 + Len(THUMBS)
        /\ last.done = 1 + Len(THUMBS)
        /\ last.calls[1].key = <<"full", <<"sha1", last.url>>, "jpg">>
        /\ \A i \in 1..Len(THUMBS) :
              last.calls[i + 1].key = <<"thumbs", THUMBS[i][1], <<"sha1", last.url>>, "jpg">>
        /\ last.outcome.url = last.url
        /\ last.outcome.path = <<"full", <<"sha1", last.url>>, "jpg">>
        /\ last.outcome.checksum = [t |-> "md5", of |-> last.calls[1].buf]
        /\ \A i \in 2..Len(last.calls) :
              last.outcome.checksum # [t |-> "md5", of |-> last.calls[i].buf]
        /\ store = "FS" =>
              \A i \in 1..Len(last.calls) :
                  fs[last.calls[i].key] = File(now, last.calls[i].buf)
        /\ store = "S3" =>
              \A i \in 1..Len(last.calls) :
                  \E p \in puts : p.key = last.calls[i].key /\ p.body = last.calls[i].buf

C9_Witness ==
    /\ Downloaded
    /\ last.outcome.t = "result"
    /\ Len(last.calls) = 3
    /\ last.calls[3].key = <<"thumbs", "big", <<"sha1", last.url>>, "jpg">>

(* C10: a fetch one of whose persist operations failed (a filesystem write  *)
(* error, a failed or error-answered S3 upload) never has media_downloaded  *)
(* return a result.                                                         *)
PutFailed ==
    /\ last.hook = "persist_image.response"
    /\ (IsFailure(last.stat) \/ last.stat.status # 200)

C10_PersistFailuresSurfaced ==
    /\ (Downloaded /\ last.fault.kind = "persist") => IsFailure(last.outcome)
    /\ PutFailed => ~last.calls[1].returned

(* C11: the directory cache of FSImagesStore holds entries only for sessions *)
(* that are open: domain_closed removes the entry of the session it ends.    *)
C11_SessionCloseDiscardsCache ==
    store = "FS" => \A k \in DOMAIN created_directories : k \in sessions

C13_PrimaryBeforeThumbnails ==
    Downloaded =>
        /\ Len(last.calls) <= 1 + Len(THUMBS)
        /\ last.calls # <<>> => last.calls[1].key[1] = "full"
        /\ \A i \in 2..Len(last.calls) :
              /\ last.calls[i].key[1] = "thumbs"
              /\ last.calls[i].key[2] = THUMBS[i - 1][1]
        /\ \A i \in 1..Len(last.calls) :
              last.calls[i].key[Len(last.calls[i].key) - 1] = <<"sha1", last.url>>

(* all variants of one URL persisted after those of the other URL *)
C13_Witness ==
    /\ Downloaded
    /\ store = "FS"
    /\ Len(last.calls) = 3
    /\ last.calls[2].key[2] = "small" /\ last.calls[3].key[2] = "big"
    /\ last.url = "http://a/1.png"
    /\ cand["http://b/2.png"].pc = "processed"

(* C14: constructing the pipeline with a store URI whose scheme is none of   *)
(* '', file, s3 raises and leaves no pipeline, so nothing is stat-ed,        *)
(* fetched or persisted; a store that is constructed is FSImagesStore for    *)
(* '' and file and S3ImagesStore for s3, and a well-formed URI with one of   *)
(* these schemes does construct it.                                          *)
C14_UnknownSchemeFailsFast ==
    /\ store = "none" =>
          /\ \A k \in Keys : fs[k] = NoFile
          /\ dirs = {} /\ puts = {} /\ heads = {} /\ sessions = {}
          /\ DOMAIN created_directories = {}
    /\ (last.hook = "__init__" /\ last.args.uri # [scheme |-> "", parts |-> <<>>]) =>
          LET scheme == last.args.uri.scheme IN
          /\ scheme \notin {"", "file", "s3", "S3"} =>
                last.outcome.t = "raise" /\ store = "none"
          /\ last.outcome.t = "raise" <=> store = "none"
          /\ scheme \in {"", "file"} => store = "FS"
          /\ scheme \in {"s3", "S3"} => store \in {"S3", "none"}
          /\ (scheme = "s3" /\ Len(last.args.uri.parts) = 2) => store = "S3"

C14_Witness ==
    /\ last.hook = "__init__"
    /\ last.args.uri.scheme = "ftp"
    /\ last.outcome = [t |-> "raise", exc |-> "KeyError"]
    /\ store = "none"

(* C15: media_failed, whatever failure is reported, raises ImageException:  *)
(* the candidate fails, no result is returned, and the step changes nothing *)
(* else: no file, no PUT, no HEAD, no directory, no other candidate, no     *)
(* fetch.                                                                   *)
C15_Frame ==
    (last'.hook = "media_failed") =>
        /\ UNCHANGED <<fs, puts, heads, created_directories, dirs, os_calls, fetches,
                       recorded, sessions>>
        /\ \A v \in URLS \ {last'.url} : cand'[v] = cand[v]
        /\ cand[last'.url].pc = "fetching"

C15_MediaFailedAlwaysFails ==
    /\ [](last.hook = "media_failed" =>
            /\ last.outcome = [t |-> "Failure", exc |-> "ImageException"]
            /\ last.calls = <<>>
            /\ ~last.opened
            /\ cand[last.url].pc = "failed"
            /\ cand[last.url].result = last.outcome)
    /\ [][C15_Frame]_vars

C15_Witness ==
    /\ last.hook = "media_failed"
    /\ last.stat = [t |-> "Failure", exc |-> "TimeoutError"]
    /\ cand[last.url].pc = "failed"
    /\ \E k \in Keys : fs[k].t = "file"

(* C16: a candidate moves only from checking to skipped or fetching (a      *)
(* check answered at once does so in one step) and from fetching to         *)
(* processed or failed; a new candidate for the URL starts only after a     *)
(* terminal state.  It holds a result exactly when skipped or processed, an *)
(* error exactly when failed.  A fetch outcome is delivered, an image       *)
(* decoded and persist calls are made only for a candidate that is          *)
(* fetching, never for one that was skipped.                                *)
C16_Moves ==
    {<<"idle", "checking">>, <<"idle", "skipped">>, <<"idle", "fetching">>,
     <<"checking", "skipped">>, <<"checking", "fetching">>,
     <<"fetching", "processed">>, <<"fetching", "failed">>,
     <<"skipped", "idle">>, <<"processed", "idle">>, <<"failed", "idle">>}

C16_Step ==
    /\ \A u \in URLS :
          cand'[u].pc # cand[u].pc => <<cand[u].pc, cand'[u].pc>> \in C16_Moves
    /\ (last'.hook \in {"media_downloaded", "media_failed"}) =>
          cand[last'.url].pc = "fetching"
    /\ (fs' # fs \/ puts' \ puts # {}) =>
          /\ last'.hook = "media_downloaded"
          /\ cand[last'.url].pc = "fetching"
          /\ \A k \in Keys : fs'[k] # fs[k] => k[Len(k) - 1] = <<"sha1", last'.url>>

C16_CandidateStateMachine ==
    /\ [](\A u \in URLS :
            /\ cand[u].pc \in {"skipped", "processed"} <=> cand[u].result.t = "result"
            /\ cand[u].pc = "failed" <=> cand[u].result.t = "Failure")
    /\ [][C16_Step]_vars

C16_Witness ==
    /\ cand["http://a/1.png"].pc = "skipped"
    /\ cand["http://b/2.png"].pc = "failed"
    /\ last.hook = "media_downloaded"
    /\ last.opened

C18_KeyAgreement ==
    /\ \A u \in URLS :
          /\ cand[u].pc # "idle" => cand[u].key = <<"full", <<"sha1", u>>, "jpg">>
          /\ cand[u].result.t = "result" =>
                cand[u].result.path = <<"full", <<"sha1", u>>, "jpg">>
    /\ Downloaded =>
          /\ last.calls # <<>> => last.calls[1].key = cand[last.url].key
          /\ last.outcome.t = "result" =>
                /\ last.outcome.path = cand[last.url].key
                /\ store = "FS" =>
                      fs[cand[last.url].key] = [t |-> "file", mtime |-> now,
                                                content |-> last.calls[1].buf]

C18_Witness ==
    /\ Downloaded
    /\ "url" \in DOMAIN last.response
    /\ last.response.url # last.url
    /\ last.outcome.t = "result"
    /\ last.outcome.path = <<"full", <<"sha1", last.url>>, "jpg">>

(* C19: when the encoder fails on thumbnail k - 1 (variant k >= 2),         *)
(* media_downloaded fails with the primary variant and the thumbnails       *)
(* before it persisted and left in the store; when decoding, the size test  *)
(* or the encoding of the primary variant fails, no persist call was made.  *)
C19_InterleavedPersistence ==
    (Downloaded /\ last.opened) =>
        /\ (last.fault.kind = "encode" /\ last.fault.k >= 2) =>
              /\ last.outcome = [t |-> "Failure", exc |-> "ImageException"]
              /\ Len(last.calls) = last.fault.k - 1
              /\ last.done = last.fault.k - 1
              /\ last.calls[1].key = <<"full", <<"sha1", last.url>>, "jpg">>
              /\ \A i \in 2..Len(last.calls) :
                    last.calls[i].key =
                        <<"thumbs", THUMBS[i - 1][1], <<"sha1", last.url>>, "jpg">>
              /\ store = "FS" =>
                    \A i \in 1..Len(last.calls) :
                        fs[last.calls[i].key] = [t |-> "file", mtime |-> now,
                                                 content |-> last.calls[i].buf]
              /\ store = "S3" =>
                    \A i \in 1..Len(last.calls) :
                        \E p \in puts : p.key = last.calls[i].key /\ p.body = last.calls[i].buf
        /\ (\/ last.response.body.fmt \notin {"PNG", "JPEG"}
            \/ last.response.body.img.size[1] < MIN_WIDTH
            \/ last.response.body.img.size[2] < MIN_HEIGHT
            \/ last.fault = [kind |-> "encode", k |-> 1]) =>
              /\ last.outcome.t = "Failure"
              /\ last.calls = <<>>
              /\ last.done = 0

C19_Witness ==
    /\ Downloaded
    /\ store = "FS"
    /\ last.fault = [kind |-> "encode", k |-> 3]
    /\ last.outcome.t = "Failure"
    /\ Len(last.calls) = 2
    /\ fs[last.calls[2].key].t = "file"

(* A step in which a check starts or resolves changes nothing in the store: *)
(* no file, no modification time, no directory, no cache entry, no PUT.     *)
C20_ChecksReadOnly ==
    (\E u \in URLS : cand[u].pc \in {"idle", "checking"} /\ cand'[u].pc # cand[u].pc) =>
        UNCHANGED <<fs, puts, created_directories, dirs, os_calls>>

(* On the filesystem a check of an image whose file is older than EXPIRES   *)
(* days resolves to None.                                                   *)
C20_ExpiredDownloads ==
    (store = "FS" /\ Checked /\ fs[cand[last.url].key].t = "file"
        /\ now - fs[cand[last.url].key].mtime > EXPIRES * 86400) =>
            last.outcome = None_ /\ cand[last.url].pc = "fetching"

(* C20, as claimed: checks change nothing in the store; an image persisted  *)
(* at t0 is downloaded by every check later than t0 + EXPIRES days; and a   *)
(* check skips only an image that a successful media_downloaded wrote.      *)
C20_ChecksNeverExtendFreshness ==
    /\ [](C20_ExpiredDownloads
          /\ ((store = "FS" /\ Checked /\ last.outcome.t = "result") =>
                recorded[last.url] = last.outcome))
    /\ [][C20_ChecksReadOnly]_vars

(* C20, amended: checks change nothing in the store; an image persisted at  *)
(* t0 is downloaded by every check later than t0 + EXPIRES days; and a      *)
(* check skips only an image whose primary file a media_downloaded wrote    *)
(* no more than EXPIRES days ago, be it a successful one or one that failed *)
(* after persisting the primary variant.                                    *)
C20_ChecksNeverExtendFreshnessAmended ==
    /\ [](C20_ExpiredDownloads
          /\ ((store = "FS" /\ Checked /\ last.outcome.t = "result") =>
                /\ fs[last.outcome.path].t = "file"
                /\ now - fs[last.outcome.path].mtime <= EXPIRES * 86400
                /\ last.outcome.checksum = [t |-> "md5", of |-> fs[last.outcome.path].content]
                /\ recorded[last.url] \in {last.outcome, None_}))
    /\ [][C20_ChecksReadOnly]_vars
    /\ [][(\E k \in Keys : fs'[k] # fs[k]) => last'.hook = "media_downloaded"]_vars

(* an expired image is downloaded *)
C20_Witness ==
    /\ store = "FS" /\ Checked
    /\ fs[cand[last.url].key].t = "file"
    /\ now - fs[cand[last.url].key].mtime > EXPIRES * 86400
    /\ last.outcome = None_
    /\ recorded[last.url].t = "result"

====
